---- MODULE Spec2Model ----
(***************************************************************************)
(* LinkedTTLMap of Cheivin/gomap (src/linked_ttl_map.go): a hash index     *)
(* (entryMap) plus a doubly linked order (head/tail/before/after) under a  *)
(* sync.RWMutex, with deadlines per entry, lazy eviction in Load and a     *)
(* background sweeper (gcLoop).                                            *)
(*                                                                         *)
(* Nodes live in a heap `nodes` (node id -> record); the id 0 is nil.      *)
(* Nodes that no pointer of the map reaches any more are reclaimed at the  *)
(* end of every action, as the Go garbage collector would.                 *)
(***************************************************************************)
EXTENDS Integers, Sequences, FiniteSets, TLC

VARIABLES nodes, entryMap, alive, head, tail,
          expiration, gcInterval, renewOnLoad, exitClosed,
          mu, pc, loc, gc, now, ret, hist

vars == <<nodes, entryMap, alive, head, tail,
          expiration, gcInterval, renewOnLoad, exitClosed,
          mu, pc, loc, gc, now, ret, hist>>

(* ---- bounds ---------------------------------------------------------- *)
MaxNodes == 4
MaxTicks == 3
TTL == 2
StartTime == 2

Keys == {"a", "b"}
Values == {1, 2}
Threads == {1, 2}
NodeIds == 1..MaxNodes
Nil == 0
NoVal == 0
DefaultGcInterval == 100

(* ---- ttlEntry -------------------------------------------------------- *)
\* ttlEntry.expired: a deadline <= 0 never expires
expired(e, t) == IF e.expiration <= 0 THEN FALSE ELSE t > e.expiration

renew_noop(e, d, t) == e

\* ttlEntry.renew: no-op on an expired entry, else deadline := now + d
renew(e, d, t) == IF expired(e, t) THEN e ELSE [e EXCEPT !.expiration = t + d]

\* the deadline store() computes
newDeadline(d, t) == IF d > 0 THEN t + d ELSE -1

\* the combine callbacks the tests pass to StoreOrCompare
compare(cmp, stored, input) ==
    IF cmp = "max" THEN (IF stored < input THEN input ELSE stored) ELSE stored

(* ---- the ordered index: S = [nodes, entryMap, head, tail] ------------ *)
State == [nodes |-> nodes, entryMap |-> entryMap, head |-> head, tail |-> tail]

Present(S, k) == k \in DOMAIN S.entryMap

FreeIds(S) == NodeIds \ DOMAIN S.nodes

NewId(S) == CHOOSE n \in FreeIds(S) : \A m \in FreeIds(S) : n <= m

NewNode(k, v, e, b, a) ==
    [key |-> k, value |-> v, expiration |-> e, before |-> b, after |-> a]

\* LinkedTTLMap.store.  In the `ok` branch the new node is bound to a variable
\* that shadows the looked-up one, so line 129 writes the OLD node back.
store(S, key, value, d, t) ==
    LET n == NewId(S)
        e == newDeadline(d, t)
    IN  IF Present(S, key)
        THEN LET old == S.entryMap[key]
                 b   == S.nodes[old].before
                 a   == S.nodes[old].after
                 n0  == (n :> NewNode(key, value, e, b, a)) @@ S.nodes
                 n1  == IF b # Nil THEN [n0 EXCEPT ![b].after = n] ELSE n0
                 h   == IF b # Nil THEN S.head ELSE n
                 n2  == IF a # Nil THEN [n1 EXCEPT ![a].before = n] ELSE n1
                 tl  == IF a # Nil THEN S.tail ELSE n
             IN  [nodes |-> n2,
                  entryMap |-> [S.entryMap EXCEPT ![key] = old],
                  head |-> h, tail |-> tl]
        ELSE LET b   == S.tail
                 n0  == (n :> NewNode(key, value, e, b, Nil)) @@ S.nodes
                 h   == IF b = Nil THEN n ELSE S.head
                 n1  == IF b = Nil THEN n0 ELSE [n0 EXCEPT ![S.tail].after = n]
             IN  [nodes |-> n1,
                  entryMap |-> [k \in (DOMAIN S.entryMap) \cup {key} |->
                                   IF k = key THEN n ELSE S.entryMap[k]],
                  head |-> h, tail |-> n]

\* LinkedTTLMap.delete, statement by statement: item.after is cleared before
\* it is read again for item.before.after and for m.head.
delete(S, item) ==
    LET k   == S.nodes[item].key
        em  == [x \in (DOMAIN S.entryMap) \ {k} |-> S.entryMap[x]]
        a   == S.nodes[item].after
        n1  == IF a # Nil
               THEN [[S.nodes EXCEPT ![a].before = S.nodes[item].before]
                        EXCEPT ![item].after = Nil]
               ELSE S.nodes
        tl  == IF a # Nil THEN S.tail ELSE S.nodes[item].before
        b   == n1[item].before
        n2  == IF b # Nil
               THEN [[n1 EXCEPT ![b].after = n1[item].after]
                        EXCEPT ![item].before = Nil]
               ELSE n1
        h   == IF b # Nil THEN S.head ELSE n1[item].after
    IN  [nodes |-> n2, entryMap |-> em, head |-> h, tail |-> tl]

(* ---- traversal and reclamation -------------------------------------- *)
RECURSIVE WalkFrom(_, _, _)
WalkFrom(S, n, fuel) ==
    IF n = Nil \/ fuel = 0 THEN <<>>
    ELSE <<n>> \o WalkFrom(S, S.nodes[n].after, fuel - 1)

\* the node ids Range and Clear traverse: head, head.after, ...
Walk(S) == WalkFrom(S, S.head, MaxNodes + 1)

WalkKeys(S) == [i \in 1..Len(Walk(S)) |-> S.nodes[Walk(S)[i]].key]

KeyOrder == <<"a", "b">>

Order(N, todo, seen) ==
    LET visit[p \in Seq(NodeIds \cup {Nil}) \X Seq(NodeIds)] ==
          IF p[1] = <<>> THEN p[2]
          ELSE LET n == Head(p[1])
               IN  IF n = Nil \/ \E i \in DOMAIN p[2] : p[2][i] = n
                   THEN visit[<<Tail(p[1]), p[2]>>]
                   ELSE visit[<<(<<N[n].after, N[n].before>> \o Tail(p[1])),
                                Append(p[2], n)>>]
    IN  visit[<<todo, seen>>]

\* Drop the nodes no pointer of the map reaches and number the others in the
\* order a traversal from head, tail and the index meets them: node ids stand
\* for Go pointers, whose numeric value no handler observes.
Renumber(S, live) ==
    LET id(n) == IF n = Nil THEN Nil ELSE CHOOSE i \in DOMAIN live : live[i] = n
    IN  [nodes |-> [i \in DOMAIN live |->
                       [S.nodes[live[i]] EXCEPT !.before = id(@), !.after = id(@)]],
         entryMap |-> [k \in DOMAIN S.entryMap |-> id(S.entryMap[k])],
         head |-> id(S.head), tail |-> id(S.tail)]

Collect(S) ==
    LET roots == <<S.head, S.tail>> \o
                 [i \in 1..Len(KeyOrder) |->
                     IF KeyOrder[i] \in DOMAIN S.entryMap THEN S.entryMap[KeyOrder[i]] ELSE Nil]
    IN  CHOOSE C \in {Renumber(S, live) : live \in {Order(S.nodes, roots, <<>>)}} : TRUE

Empty == [nodes |-> <<>>, entryMap |-> <<>>, head |-> Nil, tail |-> Nil]

(* ---- operations on the index, as the handlers compose them ----------- *)
\* len(m.entryMap)
Size(S) == Cardinality(DOMAIN S.entryMap)

Fresh(S, k, t) == Present(S, k) /\ ~expired(S.nodes[S.entryMap[k]], t)

Perms(X) == {s \in [1..Cardinality(X) -> X] : \A i, j \in DOMAIN s : i # j => s[i] # s[j]}

RECURSIVE deleteAll(_, _)
deleteAll(S, order) ==
    IF order = <<>> THEN S
    ELSE deleteAll(delete(S, S.entryMap[Head(order)]), Tail(order))

ExpiredKeys(S, t) == {k \in DOMAIN S.entryMap : expired(S.nodes[S.entryMap[k]], t)}

EntriesOf(S, order) ==
    [i \in 1..Len(order) |->
        [key |-> order[i], value |-> S.nodes[S.entryMap[order[i]]].value]]

\* LinkedTTLMap.Range: the entries handed to the visitor; the visitor
\* answers false at its stop-th call (stop = 0: never)
Visited(S, t, stop) ==
    LET w  == Walk(S)
        fr == SelectSeq(w, LAMBDA n : ~expired(S.nodes[n], t))
        m  == IF stop = 0 \/ stop > Len(fr) THEN Len(fr) ELSE stop
    IN  [i \in 1..m |-> [key |-> S.nodes[fr[i]].key, value |-> S.nodes[fr[i]].value]]

(* ---- sync.RWMutex ----------------------------------------------------- *)
\* Lock() returns once no reader and no writer holds the lock
CanLock == mu.readers = {} /\ mu.writer = Nil

\* RLock() blocks while a writer holds or waits for the lock
CanRLock == mu.writer = Nil /\ mu.wwait = {}

(* ---- results ---------------------------------------------------------- *)
Ret(op, k, arg, val, ok, seq) ==
    [op |-> op, key |-> k, arg |-> arg, val |-> val, ok |-> ok, err |-> FALSE,
     seq |-> seq, at |-> now]

\* panic(errors.New(ErrMapDestroyed))
MapDestroyed(op) ==
    [op |-> op, key |-> "", arg |-> NoVal, val |-> NoVal, ok |-> FALSE, err |-> TRUE,
     seq |-> <<>>, at |-> now]

NoLoc == [key |-> "", value |-> NoVal, ctx |-> "", chain |-> <<>>]

\* which phase of "store distinct keys, then update existing ones" the
\* history of the map is in; an empty map is as good as a new one
NextHist(kind, S2) ==
    IF DOMAIN S2.entryMap = {} /\ S2.head = Nil /\ S2.tail = Nil THEN "inserts"
    ELSE CASE kind = "insert" -> IF hist = "inserts" THEN "inserts" ELSE "other"
           [] kind = "update" -> IF hist = "other" THEN "other" ELSE "updates"
           [] kind = "remove" -> "other"
           [] OTHER -> hist

Commit(S2, kind) ==
    \E S \in {S2} : \E C \in {Collect(S)} :
        /\ nodes' = C.nodes
        /\ entryMap' = C.entryMap
        /\ head' = C.head
        /\ tail' = C.tail
        /\ hist' = NextHist(kind, C)

Config == <<expiration, gcInterval, renewOnLoad>>
Index == <<nodes, entryMap, head, tail, hist>>

(* ---- construction ----------------------------------------------------- *)
\* NewLinkedTTLMap(expiration, gcInterval, renewOnLoad), for the given sets
\* of arguments
New(exps, gcis, renews) ==
    /\ nodes = <<>> /\ entryMap = <<>> /\ head = Nil /\ tail = Nil
    /\ alive = TRUE
    /\ expiration \in exps
    /\ gcInterval \in gcis
    /\ renewOnLoad \in renews
    /\ exitClosed = FALSE
    /\ mu = [readers |-> {}, writer |-> Nil, wwait |-> {}]
    /\ pc = [t \in Threads |-> "idle"]
    /\ loc = [t \in Threads |-> NoLoc]
    /\ gc = IF expiration > 0 THEN "start" ELSE "none"
    /\ now = StartTime
    /\ ret = [op |-> "none", key |-> "", arg |-> NoVal, val |-> NoVal, ok |-> FALSE,
              err |-> FALSE, seq |-> <<>>, at |-> StartTime]
    /\ hist = "inserts"

(* ---- handlers that run wholly under the exclusive lock ---------------- *)
Store(t, key, value) ==
    /\ pc[t] = "idle" /\ CanLock /\ FreeIds(State) # {}
    /\ IF ~alive
       THEN ret' = MapDestroyed("Store") /\ UNCHANGED Index
       ELSE /\ Commit(store(State, key, value, expiration, now),
                      IF Present(State, key) THEN "update" ELSE "insert")
            /\ ret' = Ret("Store", key, value, NoVal, TRUE, <<>>)
    /\ UNCHANGED <<alive, Config, exitClosed, mu, pc, loc, gc, now>>

StoreOrCompare(t, key, value, cmp) ==
    /\ pc[t] = "idle" /\ CanLock /\ FreeIds(State) # {}
    /\ IF ~alive
       THEN ret' = MapDestroyed("StoreOrCompare") /\ UNCHANGED Index
       ELSE /\ IF Fresh(State, key, now)
               THEN LET item == entryMap[key]
                        r    == renew(nodes[item], expiration, now)
                        e    == IF cmp # "nil"
                                THEN [r EXCEPT !.value = compare(cmp, r.value, value)]
                                ELSE r
                    IN  Commit([State EXCEPT !.nodes[item] = e], "update")
               ELSE Commit(store(State, key, value, expiration, now),
                           IF Present(State, key) THEN "update" ELSE "insert")
            /\ ret' = Ret("StoreOrCompare", key, value, NoVal, TRUE, <<>>)
    /\ UNCHANGED <<alive, Config, exitClosed, mu, pc, loc, gc, now>>

Delete(t, key) ==
    /\ pc[t] = "idle" /\ CanLock
    /\ IF ~alive
       THEN ret' = MapDestroyed("Delete") /\ UNCHANGED Index
       ELSE IF Present(State, key)
            THEN /\ Commit(delete(State, entryMap[key]), "remove")
                 /\ ret' = Ret("Delete", key, NoVal, nodes[entryMap[key]].value, TRUE, <<>>)
            ELSE /\ UNCHANGED Index
                 /\ ret' = Ret("Delete", key, NoVal, NoVal, FALSE, <<>>)
    /\ UNCHANGED <<alive, Config, exitClosed, mu, pc, loc, gc, now>>

DeleteExpired(t) ==
    /\ pc[t] = "idle" /\ CanLock
    /\ IF ~alive
       THEN ret' = MapDestroyed("DeleteExpired") /\ UNCHANGED Index
       ELSE \E order \in Perms(ExpiredKeys(State, now)) :
              /\ Commit(deleteAll(State, order),
                        IF order = <<>> THEN "none" ELSE "remove")
              /\ ret' = Ret("DeleteExpired", "", NoVal, NoVal, TRUE, EntriesOf(State, order))
    /\ UNCHANGED <<alive, Config, exitClosed, mu, pc, loc, gc, now>>

(* ---- LoadOrStore: lock, look up, store -------------------------------- *)
LoadOrStoreLock_shared(t, key, value) ==
    /\ pc[t] = "idle" /\ CanRLock /\ FreeIds(State) # {}
    /\ mu' = [mu EXCEPT !.readers = @ \cup {t}]
    /\ pc' = [pc EXCEPT ![t] = "LoadOrStore"]
    /\ loc' = [loc EXCEPT ![t] = [NoLoc EXCEPT !.key = key, !.value = value]]
    /\ UNCHANGED <<Index, alive, Config, exitClosed, gc, now, ret>>

\* m.mu.Lock()
LoadOrStoreLock(t, key, value) ==
    /\ pc[t] = "idle" /\ CanLock /\ FreeIds(State) # {}
    /\ mu' = [mu EXCEPT !.writer = t]
    /\ pc' = [pc EXCEPT ![t] = "LoadOrStore"]
    /\ loc' = [loc EXCEPT ![t] = [NoLoc EXCEPT !.key = key, !.value = value]]
    /\ UNCHANGED <<Index, alive, Config, exitClosed, gc, now, ret>>

Unlocked(t) == [mu EXCEPT !.readers = @ \ {t},
                          !.writer = IF @ = t THEN Nil ELSE @]

\* the lookup; a fresh entry is renewed and returned (deferred Unlock)
LoadOrStoreCheck(t) ==
    /\ pc[t] = "LoadOrStore"
    /\ LET key == loc[t].key
       IN  IF ~alive
           THEN /\ ret' = MapDestroyed("LoadOrStore")
                /\ mu' = Unlocked(t)
                /\ pc' = [pc EXCEPT ![t] = "idle"]
                /\ loc' = [loc EXCEPT ![t] = NoLoc]
                /\ UNCHANGED Index
           ELSE IF Fresh(State, key, now)
           THEN LET item == entryMap[key]
                    e    == IF renewOnLoad THEN renew(nodes[item], expiration, now)
                                           ELSE nodes[item]
                IN  /\ Commit([State EXCEPT !.nodes[item] = e], "none")
                    /\ ret' = Ret("LoadOrStore", key, loc[t].value, e.value, TRUE, <<>>)
                    /\ mu' = Unlocked(t)
                    /\ pc' = [pc EXCEPT ![t] = "idle"]
                    /\ loc' = [loc EXCEPT ![t] = NoLoc]
           ELSE /\ pc' = [pc EXCEPT ![t] = "LoadOrStore_store"]
                /\ UNCHANGED <<Index, mu, loc, ret>>
    /\ UNCHANGED <<alive, Config, exitClosed, gc, now>>

\* m.store(key, value); return value, false
LoadOrStoreStore(t) ==
    /\ pc[t] = "LoadOrStore_store"
    /\ FreeIds(State) # {}
    /\ Commit(store(State, loc[t].key, loc[t].value, expiration, now),
              IF Present(State, loc[t].key) THEN "update" ELSE "insert")
    /\ ret' = Ret("LoadOrStore", loc[t].key, loc[t].value, loc[t].value, FALSE, <<>>)
    /\ mu' = Unlocked(t)
    /\ pc' = [pc EXCEPT ![t] = "idle"]
    /\ loc' = [loc EXCEPT ![t] = NoLoc]
    /\ UNCHANGED <<alive, Config, exitClosed, gc, now>>

(* ---- handlers that take the shared lock ------------------------------ *)
\* m.mu.RLock() of Load
LoadRLock(t, key) ==
    /\ pc[t] = "idle" /\ CanRLock
    /\ mu' = [mu EXCEPT !.readers = @ \cup {t}]
    /\ pc' = [pc EXCEPT ![t] = "Load"]
    /\ loc' = [loc EXCEPT ![t] = [NoLoc EXCEPT !.key = key]]
    /\ UNCHANGED <<Index, alive, Config, exitClosed, gc, now, ret>>

\* the body of Load, still under the shared lock, and the deferred RUnlock
Load(t) ==
    /\ pc[t] = "Load"
    /\ LET key == loc[t].key
       IN  IF ~alive
           THEN ret' = MapDestroyed("Load") /\ UNCHANGED Index
           ELSE IF Present(State, key)
           THEN LET item == entryMap[key]
                IN  IF ~expired(nodes[item], now)
                    THEN /\ Commit([State EXCEPT !.nodes[item] =
                                       IF renewOnLoad
                                       THEN renew(nodes[item], expiration, now)
                                       ELSE nodes[item]], "none")
                         /\ ret' = Ret("Load", key, NoVal, nodes[item].value, TRUE, <<>>)
                    ELSE /\ Commit(delete(State, item), "remove")
                         /\ ret' = Ret("Load", key, NoVal, NoVal, FALSE, <<>>)
           ELSE /\ UNCHANGED Index
                /\ ret' = Ret("Load", key, NoVal, NoVal, FALSE, <<>>)
    /\ mu' = Unlocked(t)
    /\ pc' = [pc EXCEPT ![t] = "idle"]
    /\ loc' = [loc EXCEPT ![t] = NoLoc]
    /\ UNCHANGED <<alive, Config, exitClosed, gc, now>>

Range(t, stop) ==
    /\ pc[t] = "idle" /\ CanRLock
    /\ ret' = IF ~alive THEN MapDestroyed("Range")
              ELSE Ret("Range", "", stop, NoVal, TRUE, Visited(State, now, stop))
    /\ UNCHANGED <<Index, alive, Config, exitClosed, mu, pc, loc, gc, now>>

SizeCall(t) ==
    /\ pc[t] = "idle" /\ CanRLock
    /\ ret' = IF ~alive THEN MapDestroyed("Size")
              ELSE Ret("Size", "", NoVal, Size(State), TRUE, <<>>)
    /\ UNCHANGED <<Index, alive, Config, exitClosed, mu, pc, loc, gc, now>>

(* ---- Clear, called by the user and by Destroy ------------------------- *)
\* the caller reaches m.mu.Lock() of Clear and waits for the lock
ClearCall(t) ==
    /\ pc[t] = "idle"
    /\ mu' = [mu EXCEPT !.wwait = @ \cup {t}]
    /\ pc' = [pc EXCEPT ![t] = "Clear"]
    /\ loc' = [loc EXCEPT ![t] = [NoLoc EXCEPT !.ctx = "Clear"]]
    /\ UNCHANGED <<Index, alive, Config, exitClosed, gc, now, ret>>

\* Lock acquired: detach the whole chain, reset the index, Unlock
ClearDetach(t) ==
    /\ pc[t] = "Clear" /\ CanLock
    /\ mu' = [mu EXCEPT !.wwait = @ \ {t}]
    /\ IF ~alive
       THEN /\ ret' = MapDestroyed(loc[t].ctx)
            /\ pc' = [pc EXCEPT ![t] = "idle"]
            /\ loc' = [loc EXCEPT ![t] = NoLoc]
            /\ UNCHANGED Index
       ELSE /\ loc' = [loc EXCEPT ![t].chain =
                         [i \in 1..Len(Walk(State)) |-> nodes[Walk(State)[i]]]]
            /\ pc' = [pc EXCEPT ![t] = "Clear_collect"]
            /\ Commit(Empty, "none")
            /\ UNCHANGED ret
    /\ UNCHANGED <<alive, Config, exitClosed, gc, now>>

\* outside the lock: keep the entries that are not expired; when Destroy
\* made the call, Destroy goes on: entryMap = nil, close(exit), RUnlock
ClearCollect(t) ==
    /\ pc[t] = "Clear_collect"
    /\ LET fr == SelectSeq(loc[t].chain, LAMBDA e : ~expired(e, now))
           es == [i \in 1..Len(fr) |-> [key |-> fr[i].key, value |-> fr[i].value]]
       IN  IF loc[t].ctx = "Destroy"
           THEN /\ alive' = FALSE
                /\ Commit(Empty, "none")
                /\ exitClosed' = TRUE
                /\ mu' = Unlocked(t)
                /\ ret' = Ret("Destroy", "", NoVal, NoVal, TRUE, <<>>)
           ELSE /\ ret' = Ret("Clear", "", NoVal, NoVal, TRUE, es)
                /\ UNCHANGED <<Index, alive, exitClosed, mu>>
    /\ pc' = [pc EXCEPT ![t] = "idle"]
    /\ loc' = [loc EXCEPT ![t] = NoLoc]
    /\ UNCHANGED <<Config, gc, now>>

(* ---- Destroy ---------------------------------------------------------- *)
\* m.mu.RLock() of Destroy
DestroyRLock(t) ==
    /\ pc[t] = "idle" /\ CanRLock
    /\ mu' = [mu EXCEPT !.readers = @ \cup {t}]
    /\ pc' = [pc EXCEPT ![t] = "Destroy"]
    /\ loc' = [loc EXCEPT ![t] = [NoLoc EXCEPT !.ctx = "Destroy"]]
    /\ UNCHANGED <<Index, alive, Config, exitClosed, gc, now, ret>>

\* the liveness check, then m.Clear() with the shared lock still held
Destroy(t) ==
    /\ pc[t] = "Destroy"
    /\ IF ~alive
       THEN /\ ret' = MapDestroyed("Destroy")
            /\ mu' = Unlocked(t)
            /\ pc' = [pc EXCEPT ![t] = "idle"]
            /\ loc' = [loc EXCEPT ![t] = NoLoc]
       ELSE /\ mu' = [mu EXCEPT !.wwait = @ \cup {t}]
            /\ pc' = [pc EXCEPT ![t] = "Clear"]
            /\ UNCHANGED <<ret, loc>>
    /\ UNCHANGED <<Index, alive, Config, exitClosed, gc, now>>

(* ---- the sweeper goroutine -------------------------------------------- *)
gcLoopStart ==
    /\ gc = "start"
    /\ gcInterval' = IF gcInterval <= 0 THEN DefaultGcInterval ELSE gcInterval
    /\ gc' = IF expiration <= 0 THEN "exited" ELSE "select"
    /\ UNCHANGED <<Index, alive, expiration, renewOnLoad, exitClosed, mu, pc, loc, now, ret>>

\* a select round whose tick removes nothing
gcLoopSelect_idle ==
    /\ gc = "select"
    /\ CanLock
    /\ UNCHANGED vars

\* one round of the select: a tick runs DeleteExpired, a closed exit
\* channel ends the loop
gcLoopSelect ==
    /\ gc = "select"
    /\ \E c \in (IF exitClosed THEN {"tick", "exit"} ELSE {"tick"}) :
         IF c = "exit"
         THEN gc' = "exited" /\ UNCHANGED Index
         ELSE /\ CanLock
              /\ IF ~alive
                 THEN gc' = "panicked" /\ UNCHANGED Index
                 ELSE /\ \E order \in Perms(ExpiredKeys(State, now)) :
                           Commit(deleteAll(State, order),
                                  IF order = <<>> THEN "none" ELSE "remove")
                      /\ UNCHANGED gc
    /\ UNCHANGED <<alive, Config, exitClosed, mu, pc, loc, now, ret>>

(* ---- time ------------------------------------------------------------- *)
Tick ==
    /\ now < StartTime + MaxTicks
    /\ now' = now + 1
    /\ UNCHANGED <<Index, alive, Config, exitClosed, mu, pc, loc, gc, ret>>

\* the calls of caller t on the keys K
Call(t, K) ==
    \/ \E k \in K, v \in Values : Store(t, k, v)
    \/ \E k \in K, v \in Values, cmp \in {"nil", "max"} : StoreOrCompare(t, k, v, cmp)
    \/ \E k \in K : Delete(t, k)
    \/ DeleteExpired(t)
    \/ \E k \in K, v \in Values : LoadOrStoreLock(t, k, v)
    \/ LoadOrStoreCheck(t)
    \/ LoadOrStoreStore(t)
    \/ \E k \in K : LoadRLock(t, k)
    \/ Load(t)
    \/ \E stop \in {0, 1} : Range(t, stop)
    \/ SizeCall(t)
    \/ ClearCall(t)
    \/ ClearDetach(t)
    \/ ClearCollect(t)
    \/ DestroyRLock(t)
    \/ Destroy(t)

\* a map built with expiration <= 0 (no sweeper is started), one caller
Init == New({-1}, {-1}, BOOLEAN)

Next == Call(1, Keys)

Spec == Init /\ [][Next]_vars

\* a map built with expiration = TTL > 0 and its sweeper, one caller, one key
InitTTL == New({TTL}, {1}, BOOLEAN)

NextTTL == Call(1, {"a"}) \/ gcLoopStart \/ gcLoopSelect \/ Tick

SpecTTL == InitTTL /\ [][NextTTL]_vars

\* two concurrent callers and the sweeper on one key
InitConc == New({TTL}, {1}, {FALSE})

NextConc == (\E t \in Threads : Call(t, {"a"})) \/ gcLoopStart \/ gcLoopSelect \/ Tick

SpecConc == InitConc /\ [][NextConc]_vars

\* two concurrent callers of LoadOrStore (and of Delete) on one key
InitLOS == New({TTL}, {1}, BOOLEAN)

NextLOS ==
    \/ \E t \in Threads, v \in Values : LoadOrStoreLock(t, "a", v)
    \/ \E t \in Threads : LoadOrStoreCheck(t)
    \/ \E t \in Threads : LoadOrStoreStore(t)
    \/ \E t \in Threads : Delete(t, "a")
    \/ gcLoopStart
    \/ gcLoopSelect
    \/ Tick

SpecLOS == InitLOS /\ [][NextLOS]_vars

\* one caller storing, loading and deleting two keys while entries expire;
\* the caller makes the sweeper's DeleteExpired calls itself
InitEvict == New({TTL}, {1}, {FALSE})

NextEvict ==
    \/ \E k \in Keys : Store(1, k, 1)
    \/ \E k \in Keys : Delete(1, k)
    \/ DeleteExpired(1)
    \/ \E k \in Keys : LoadRLock(1, k)
    \/ Load(1)
    \/ Tick

SpecEvict == InitEvict /\ [][NextEvict]_vars

\* a live map (Destroy is not called) whose caller stores both keys, reads
\* and inserts key "b" only, and never deletes: a stale "a" is left to the
\* sweeper
InitSweep == New({TTL}, {1}, BOOLEAN)

NextSweep ==
    \/ \E k \in Keys : Store(1, k, 1)
    \/ LoadOrStoreLock(1, "b", 2)
    \/ LoadOrStoreCheck(1)
    \/ LoadOrStoreStore(1)
    \/ LoadRLock(1, "b")
    \/ Load(1)
    \/ SizeCall(1)
    \/ gcLoopStart
    \/ gcLoopSelect
    \/ Tick

\* a caller that has taken the lock runs on to its deferred unlock
Returns(t) == LoadOrStoreCheck(t) \/ LoadOrStoreStore(t) \/ Load(t)

\* the sweeper goroutine is scheduled (WF on its start); its ticker keeps
\* firing and its Lock() is granted once the lock is free often enough: a
\* waiting sync.RWMutex writer shuts out new readers and sync.Mutex hands
\* over to a starving waiter (SF on the select round); callers holding the
\* lock run to their deferred unlock (WF)
SpecSweep ==
    /\ InitSweep
    /\ [][NextSweep]_vars
    /\ WF_vars(gcLoopStart)
    /\ SF_vars(gcLoopSelect)
    /\ WF_vars(Returns(1))

(* ====================================================================== *)
(* LinkedMap (linked_map.go): the same index without deadlines            *)
(* ====================================================================== *)
\* LinkedMap.store: the nodes carry no deadline (kept at -1 here)
LinkedMap_store(S, key, value) == store(S, key, value, -1, 0)

\* the unlinking statements of LinkedMap.Delete
LinkedMap_unlink(S, item) == delete(S, item)

LinkedMap_Store(t, key, value) ==
    /\ pc[t] = "idle" /\ CanLock /\ FreeIds(State) # {}
    /\ IF ~alive
       THEN ret' = MapDestroyed("Store") /\ UNCHANGED Index
       ELSE /\ Commit(LinkedMap_store(State, key, value),
                      IF Present(State, key) THEN "update" ELSE "insert")
            /\ ret' = Ret("Store", key, value, NoVal, TRUE, <<>>)
    /\ UNCHANGED <<alive, Config, exitClosed, mu, pc, loc, gc, now>>

\* LinkedMap.Load runs under the exclusive lock
LinkedMap_Load(t, key) ==
    /\ pc[t] = "idle" /\ CanLock
    /\ ret' = IF ~alive THEN MapDestroyed("Load")
              ELSE IF Present(State, key)
                   THEN Ret("Load", key, NoVal, nodes[entryMap[key]].value, TRUE, <<>>)
                   ELSE Ret("Load", key, NoVal, NoVal, FALSE, <<>>)
    /\ UNCHANGED <<Index, alive, Config, exitClosed, mu, pc, loc, gc, now>>

\* LinkedMap.Delete: every path ends in `return nil`
LinkedMap_Delete(t, key) ==
    /\ pc[t] = "idle" /\ CanLock
    /\ IF ~alive
       THEN ret' = MapDestroyed("Delete") /\ UNCHANGED Index
       ELSE /\ IF Present(State, key)
               THEN Commit(LinkedMap_unlink(State, entryMap[key]), "remove")
               ELSE UNCHANGED Index
            /\ ret' = Ret("Delete", key, NoVal, NoVal, Present(State, key), <<>>)
    /\ UNCHANGED <<alive, Config, exitClosed, mu, pc, loc, gc, now>>

LinkedMap_Size(t) ==
    /\ pc[t] = "idle" /\ CanRLock
    /\ ret' = IF ~alive THEN MapDestroyed("Size")
              ELSE Ret("Size", "", NoVal, Size(State), TRUE, <<>>)
    /\ UNCHANGED <<Index, alive, Config, exitClosed, mu, pc, loc, gc, now>>

\* NewLinkedMap(); the deadline fields of the record stay unused
InitLinked == New({-1}, {-1}, {FALSE})

NextLinked ==
    \/ \E k \in Keys, v \in Values : LinkedMap_Store(1, k, v)
    \/ \E k \in Keys : LinkedMap_Load(1, k)
    \/ \E k \in Keys : LinkedMap_Delete(1, k)
    \/ LinkedMap_Size(1)

SpecLinked == InitLinked /\ [][NextLinked]_vars

(* ====================================================================== *)
(* TTLMap (ttl_map.go): a hash index of entries with deadlines, no order  *)
(* ====================================================================== *)
\* TTLMap.store: a new entry replaces whatever the key held
TTLMap_store(S, key, value, d, t) ==
    LET n == NewId(S)
    IN  [S EXCEPT !.nodes = (n :> NewNode(key, value, newDeadline(d, t), Nil, Nil)) @@ S.nodes,
                  !.entryMap = [k \in (DOMAIN S.entryMap) \cup {key} |->
                                   IF k = key THEN n ELSE S.entryMap[k]]]

\* delete(m.entryMap, key) for every key of ks
TTLMap_remove(S, ks) ==
    [S EXCEPT !.entryMap = [k \in (DOMAIN S.entryMap) \ ks |-> S.entryMap[k]]]

\* the Go map handed back by Clear, listed in key order
TTLMap_pairs(S, ks) ==
    LET ord == SelectSeq(KeyOrder, LAMBDA k : k \in ks)
    IN  [i \in 1..Len(ord) |-> [key |-> ord[i], value |-> S.nodes[S.entryMap[ord[i]]].value]]

\* `if m.entryMap == nil { panic }`, evaluated before the lock is taken
TTLMap_check(t, op, key, value) ==
    /\ pc[t] = "idle"
    /\ IF ~alive
       THEN ret' = MapDestroyed(op) /\ UNCHANGED <<pc, loc>>
       ELSE /\ pc' = [pc EXCEPT ![t] = op]
            /\ loc' = [loc EXCEPT ![t] = [NoLoc EXCEPT !.key = key, !.value = value, !.ctx = op]]
            /\ UNCHANGED ret
    /\ UNCHANGED <<Index, alive, Config, exitClosed, mu, gc, now>>

TTLMap_StoreCheck(t, key, value) == TTLMap_check(t, "TTLMap.Store", key, value)

\* m.mu.Lock(); m.store(key, value); m.mu.Unlock()
TTLMap_Store(t) ==
    /\ pc[t] = "TTLMap.Store" /\ CanLock
    /\ IF ~alive
       THEN ret' = MapDestroyed("nil map") /\ UNCHANGED Index
       ELSE /\ Commit(TTLMap_store(State, loc[t].key, loc[t].value, expiration, now), "other")
            /\ ret' = Ret("Store", loc[t].key, loc[t].value, NoVal, TRUE, <<>>)
    /\ pc' = [pc EXCEPT ![t] = "idle"]
    /\ loc' = [loc EXCEPT ![t] = NoLoc]
    /\ UNCHANGED <<alive, Config, exitClosed, mu, gc, now>>

TTLMap_LoadCheck(t, key) == TTLMap_check(t, "TTLMap.Load", key, NoVal)

\* m.mu.RLock(); the lookup with renewal or lazy eviction; RUnlock
TTLMap_Load(t) ==
    /\ pc[t] = "TTLMap.Load" /\ CanRLock
    /\ LET key == loc[t].key
       IN  IF alive /\ Present(State, key)
           THEN LET item == entryMap[key]
                IN  IF ~expired(nodes[item], now)
                    THEN /\ Commit([State EXCEPT !.nodes[item] =
                                       IF renewOnLoad
                                       THEN renew(nodes[item], expiration, now)
                                       ELSE nodes[item]], "other")
                         /\ ret' = Ret("Load", key, NoVal, nodes[item].value, TRUE, <<>>)
                    ELSE /\ Commit(TTLMap_remove(State, {key}), "other")
                         /\ ret' = Ret("Load", key, NoVal, NoVal, FALSE, <<>>)
           ELSE /\ UNCHANGED Index
                /\ ret' = Ret("Load", key, NoVal, NoVal, FALSE, <<>>)
    /\ pc' = [pc EXCEPT ![t] = "idle"]
    /\ loc' = [loc EXCEPT ![t] = NoLoc]
    /\ UNCHANGED <<alive, Config, exitClosed, mu, gc, now>>

TTLMap_ClearCheck(t) == TTLMap_check(t, "TTLMap.Clear", "", NoVal)

\* m.mu.Lock(); now := time.Now(); an empty map returns nil with the lock
\* still held; otherwise m.entryMap is replaced by a new map and unlocked.
\* loc.chain is history only: the fresh entries the map held at that moment
\* (the code keeps no reference to the old map).
TTLMap_Clear(t) ==
    /\ pc[t] = "TTLMap.Clear" /\ CanLock
    /\ IF Size(State) = 0
       THEN /\ mu' = [mu EXCEPT !.writer = t]
            /\ ret' = Ret("Clear", "", NoVal, NoVal, TRUE, <<>>)
            /\ pc' = [pc EXCEPT ![t] = "idle"]
            /\ loc' = [loc EXCEPT ![t] = NoLoc]
            /\ UNCHANGED Index
       ELSE /\ Commit(Empty, "other")
            /\ pc' = [pc EXCEPT ![t] = "TTLMap.Clear_collect"]
            /\ loc' = [loc EXCEPT ![t].value = now,
                                  ![t].chain = TTLMap_pairs(State, DOMAIN entryMap \ ExpiredKeys(State, now))]
            /\ UNCHANGED <<mu, ret>>
    /\ UNCHANGED <<alive, Config, exitClosed, gc, now>>

\* after the Unlock: `for key, v := range m.entryMap` reads the map the
\* field holds now, keeping the entries that were fresh at the saved time
TTLMap_ClearCollect(t) ==
    /\ pc[t] = "TTLMap.Clear_collect"
    /\ LET ks == {k \in DOMAIN entryMap :
                    nodes[entryMap[k]].expiration <= 0
                       \/ loc[t].value <= nodes[entryMap[k]].expiration}
       IN  ret' = Ret("Clear", "", NoVal, NoVal, TRUE, TTLMap_pairs(State, ks))
    /\ pc' = [pc EXCEPT ![t] = "idle"]
    /\ loc' = [loc EXCEPT ![t] = NoLoc]
    /\ UNCHANGED <<Index, alive, Config, exitClosed, mu, gc, now>>

TTLMap_DestroyCheck(t) == TTLMap_check(t, "TTLMap.Destroy", "", NoVal)

\* m.mu.Lock() of Destroy; the Unlock is deferred
TTLMap_DestroyLock(t) ==
    /\ pc[t] = "TTLMap.Destroy" /\ CanLock
    /\ mu' = [mu EXCEPT !.writer = t]
    /\ pc' = [pc EXCEPT ![t] = "TTLMap.Destroy_send"]
    /\ UNCHANGED <<Index, alive, Config, exitClosed, loc, gc, now, ret>>

\* `m.exit <- true` on the unbuffered channel completes only together with
\* the sweeper's `case <-m.exit`; then m.entryMap = nil and the Unlock
TTLMap_DestroySend(t) ==
    /\ pc[t] = "TTLMap.Destroy_send" /\ gc = "select"
    /\ gc' = "exited"
    /\ alive' = FALSE
    /\ Commit(Empty, "other")
    /\ mu' = Unlocked(t)
    /\ ret' = Ret("Destroy", "", NoVal, NoVal, TRUE, <<>>)
    /\ pc' = [pc EXCEPT ![t] = "idle"]
    /\ loc' = [loc EXCEPT ![t] = NoLoc]
    /\ UNCHANGED <<Config, exitClosed, now>>

\* TTLMap.gcLoop up to the select
TTLMap_gcLoopStart ==
    /\ gc = "start"
    /\ gcInterval' = IF gcInterval <= 0 THEN DefaultGcInterval ELSE gcInterval
    /\ gc' = IF expiration <= 0 THEN "exited" ELSE "select"
    /\ UNCHANGED <<Index, alive, expiration, renewOnLoad, exitClosed, mu, pc, loc, now, ret>>

\* `case <-ticker.C`: the sweeper calls DeleteExpired, whose nil check
\* comes before the lock
TTLMap_gcLoopTick ==
    /\ gc = "select"
    /\ gc' = IF ~alive THEN "panicked" ELSE "sweep"
    /\ UNCHANGED <<Index, alive, Config, exitClosed, mu, pc, loc, now, ret>>

\* the body of DeleteExpired under the exclusive lock, back to the select
TTLMap_DeleteExpired ==
    /\ gc = "sweep" /\ CanLock
    /\ Commit(TTLMap_remove(State, ExpiredKeys(State, now)), "other")
    /\ gc' = "select"
    /\ UNCHANGED <<alive, Config, exitClosed, mu, pc, loc, now, ret>>

\* NewTTLMap(expiration, gcInterval, renewOnLoad), with and without TTL
InitTTLMap == New({-1, TTL}, {1}, {FALSE})

NextTTLMap ==
    \/ \E k \in Keys, v \in Values : TTLMap_StoreCheck(1, k, v)
    \/ TTLMap_Store(1)
    \/ \E k \in Keys : TTLMap_LoadCheck(1, k)
    \/ TTLMap_Load(1)
    \/ TTLMap_ClearCheck(1)
    \/ TTLMap_Clear(1)
    \/ TTLMap_ClearCollect(1)
    \/ TTLMap_DestroyCheck(1)
    \/ TTLMap_DestroyLock(1)
    \/ TTLMap_DestroySend(1)
    \/ TTLMap_gcLoopStart
    \/ TTLMap_gcLoopTick
    \/ TTLMap_DeleteExpired
    \/ Tick

SpecTTLMap == InitTTLMap /\ [][NextTTLMap]_vars

(* ====================================================================== *)
(* Claims                                                                 *)
(* ====================================================================== *)
\* a Load(k) call of some caller returns in this step
LoadReturns(k) ==
    \E t \in Threads : pc[t] = "Load" /\ loc[t].key = k /\ pc'[t] = "idle"

RangeKeys(S, t) == [i \in 1..Len(Visited(S, t, 0)) |-> Visited(S, t, 0)[i].key]

AllFresh(S, t) == \A n \in DOMAIN S.nodes : ~expired(S.nodes[n], t)

\* C1: on a live map Size() equals the number of keys reached by walking
\* from head along the after links, which equals the number of keys in the
\* hash index.
C1_SizeIsWalkIsIndex ==
    alive => /\ Size(State) = Len(WalkKeys(State))
             /\ Len(WalkKeys(State)) = Cardinality(DOMAIN entryMap)

\* C2: on a map whose entries do not expire, the Load(k) that follows a
\* Store(k, v) returns (v, true), also when k held another value before.
C2_LoadAfterStore ==
    [][\A k \in Keys :
         (expiration <= 0 /\ ret.op = "Store" /\ ret.key = k /\ LoadReturns(k))
            => (ret'.ok /\ ret'.val = ret.arg)]_vars

\* C3: after distinct keys were stored, updating an existing key (Store or
\* StoreOrCompare) leaves the sequence of keys Range visits unchanged, each
\* key of the index visited exactly once.
C3_UpdateKeepsRangeOrder ==
    [][(hist' = "updates" /\ AllFresh(State, now))
          => /\ RangeKeys(State', now') = RangeKeys(State, now)
             /\ Len(RangeKeys(State', now')) = Cardinality(DOMAIN entryMap')]_vars

\* C4: every key of the hash index maps to exactly one node of the linked
\* order, and every node of the linked order is the node the index holds
\* for its key.
C4_IndexAndOrderAgree ==
    alive =>
      LET w == Walk(State)
      IN  /\ \A k \in DOMAIN entryMap :
                Cardinality({i \in DOMAIN w : w[i] = entryMap[k]}) = 1
          /\ \A i \in DOMAIN w :
                /\ nodes[w[i]].key \in DOMAIN entryMap
                /\ entryMap[nodes[w[i]].key] = w[i]

\* C5: with defaultTTL = T > 0 and renewOnAccess off, a Load(k) that follows
\* a Store(k, v) made at t0 returns (v, true) at any time < t0 + T and
\* not-found at any time > t0 + T.
C5_FreshUntilDeadline ==
    [][\A k \in Keys :
         (expiration > 0 /\ ~renewOnLoad /\ ret.op = "Store" /\ ret.key = k
            /\ LoadReturns(k))
            => /\ now < ret.at + expiration => (ret'.ok /\ ret'.val = ret.arg)
               /\ now > ret.at + expiration => ~ret'.ok]_vars

\* C6: with renewOnAccess on and defaultTTL = T > 0, a Load(k) less than T
\* after the previous successful Load(k) finds the entry again, and a
\* Load(k) more than T after it returns not-found.
C6_RenewOnAccess ==
    [][\A k \in Keys :
         (expiration > 0 /\ renewOnLoad /\ ret.op = "Load" /\ ret.ok /\ ret.key = k
            /\ LoadReturns(k))
            => /\ now - ret.at < expiration => (ret'.ok /\ ret'.val = ret.val)
               /\ now - ret.at > expiration => ~ret'.ok]_vars

\* a successful Load(k) renewed the deadline to its own time + T, and the
\* next Load(k), less than T later, is about to read the entry
C6_Witness ==
    /\ renewOnLoad /\ expiration > 0 /\ ret.op = "Load" /\ ret.ok
    /\ ret.at > StartTime /\ now > ret.at /\ now - ret.at < expiration
    /\ \E t \in Threads : pc[t] = "Load" /\ loc[t].key = ret.key
    /\ Present(State, ret.key)
    /\ nodes[entryMap[ret.key]].expiration = ret.at + expiration

InLoadOrStore(t) == pc[t] \in {"LoadOrStore", "LoadOrStore_store"}

\* C7: concurrent LoadOrStore calls on a key are serialised: a caller that
\* found the key absent is alone in the map until it has stored, so it
\* returns (its value, false) with its value stored, and a caller that
\* returns loaded=true returns the value the index holds.
C7_LoadOrStoreAtomic ==
    [][\A t \in Threads :
         /\ pc'[t] = "LoadOrStore_store"
              => /\ ~Fresh(State', loc'[t].key, now')
                 /\ \A u \in Threads \ {t} : pc'[u] \notin {"Load", "LoadOrStore", "LoadOrStore_store"}
         /\ (pc[t] = "LoadOrStore_store" /\ pc'[t] = "idle" /\ ~Present(State, loc[t].key))
              => /\ ret' = Ret("LoadOrStore", loc[t].key, loc[t].value, loc[t].value, FALSE, <<>>)
                 /\ Present(State', loc[t].key)
                 /\ nodes'[entryMap'[loc[t].key]].value = loc[t].value
         /\ (pc[t] = "LoadOrStore" /\ pc'[t] = "idle")
              => /\ ret'.ok /\ Fresh(State, loc[t].key, now)
                 /\ ret'.val = nodes'[entryMap'[loc[t].key]].value
                 /\ entryMap' = entryMap
       ]_vars

\* a LoadOrStore(k, v2) returned loaded=true with the value v1 that another
\* LoadOrStore call had stored
C7_Witness ==
    /\ ret.op = "LoadOrStore" /\ ret.ok /\ ret.val # ret.arg
    /\ Present(State, ret.key) /\ nodes[entryMap[ret.key]].value = ret.val

DestroyCalled == \E t \in Threads : loc[t].ctx = "Destroy"

\* C8: once Destroy() has been called and every call in progress has run as
\* far as it can, the map is Destroyed and its lock is free, so that every
\* operation called next fails with MapDestroyed.
C8_DestroyedMapRejects ==
    (DestroyCalled /\ ~ENABLED NextConc) => (~alive /\ CanLock /\ CanRLock)

\* C9: a Destroy() call on a live map returns to its caller: the program
\* never comes to rest with a caller still inside Destroy.
C9_DestroyReturns ==
    (\A t \in Threads : loc[t].ctx # "Destroy") \/ ENABLED NextConc

\* C10: in a map built with defaultTTL <= 0 no entry ever becomes stale and
\* no sweeper runs.
C10_NoTTLNeverStale ==
    expiration <= 0 => (gc = "none" /\ AllFresh(State, now))

\* what a Load(k) called at time t on index S returns: <<value, found>>
LoadResult(S, k, t) ==
    IF Fresh(S, k, t) THEN <<S.nodes[S.entryMap[k]].value, TRUE>> ELSE <<NoVal, FALSE>>

\* the value StoreOrCompare(k, v, cmp) is to leave under k
CombinedValue(S, k, v, cmp, t) ==
    IF Fresh(S, k, t)
    THEN IF cmp = "nil" THEN S.nodes[S.entryMap[k]].value
         ELSE compare(cmp, S.nodes[S.entryMap[k]].value, v)
    ELSE v

\* C11: StoreOrCompare(k, v, combine) on a fresh entry with value e leaves k
\* present and fresh with value combine(e, v) (e when combine is nil), and on
\* an absent or stale key it stores v, so that the Load(k) that follows
\* returns that value with found=true.
C11_StoreOrCompareThenLoad ==
    [][\A t \in Threads, k \in Keys, v \in Values, cmp \in {"nil", "max"} :
         (alive /\ StoreOrCompare(t, k, v, cmp))
            => LoadResult(State', k, now') = <<CombinedValue(State, k, v, cmp, now), TRUE>>]_vars

\* C12: Delete(k) removes k from the index whether its entry is fresh or
\* stale, and returns the value of the entry only if it was fresh; for a
\* stale entry and for an absent key it returns nil.
C12_DeleteReturnsFreshOnly ==
    [][\A t \in Threads, k \in Keys :
         (alive /\ Delete(t, k))
            => /\ ~Present(State', k)
               /\ ret'.val = IF Fresh(State, k, now)
                             THEN nodes[entryMap[k]].value ELSE NoVal]_vars

\* the key/value pairs of the entries of a detached chain that are fresh at t
FreshEntries(chain, t) ==
    LET fr == SelectSeq(chain, LAMBDA e : ~expired(e, t))
    IN  [i \in 1..Len(fr) |-> [key |-> fr[i].key, value |-> fr[i].value]]

\* the fresh entries of the map as Load sees them
LoadableEntries(S, t) ==
    {[key |-> k, value |-> LoadResult(S, k, t)[1]] : k \in {x \in Keys : Fresh(S, x, t)}}

\* C13: Clear() takes exactly the entries that are fresh when it is called,
\* in the order Range visits them, leaves the map empty (Size() = 0, every
\* Load not-found), and returns the fresh entries of what it took.
C13_ClearReturnsFreshInOrder ==
    [][\A t \in Threads :
         /\ (alive /\ ClearDetach(t) /\ loc[t].ctx = "Clear")
              => LET es == FreshEntries(loc'[t].chain, now)
                 IN  /\ es = Visited(State, now, 0)
                     /\ {es[i] : i \in DOMAIN es} = LoadableEntries(State, now)
                     /\ Len(es) = Cardinality(LoadableEntries(State, now))
                     /\ Size(State') = 0
                     /\ \A k \in Keys : LoadResult(State', k, now') = <<NoVal, FALSE>>
         /\ (ClearCollect(t) /\ loc[t].ctx = "Clear")
              => ret'.seq = FreshEntries(loc[t].chain, now)
       ]_vars

\* C14: Load(k) on a stale entry returns (nil, false) and evicts the entry:
\* k is then absent from the hash index and from the linked order and Size()
\* has dropped by exactly one; Load(k) on an absent key returns (nil, false)
\* and changes nothing; Load(k) on a fresh entry returns (value, true).
C14_LoadEvictsStale ==
    [][\A t \in Threads :
         (alive /\ Load(t))
            => LET k == loc[t].key
               IN  /\ (Present(State, k) /\ ~Fresh(State, k, now))
                        => /\ ret'.val = NoVal /\ ~ret'.ok
                           /\ ~Present(State', k)
                           /\ \A i \in DOMAIN WalkKeys(State') : WalkKeys(State')[i] # k
                           /\ Size(State') = Size(State) - 1
                   /\ ~Present(State, k)
                        => /\ ret'.val = NoVal /\ ~ret'.ok
                           /\ State' = State
                   /\ Fresh(State, k, now)
                        => /\ ret'.ok /\ ret'.val = nodes[entryMap[k]].value
                           /\ Size(State') = Size(State)]_vars

\* C15: LoadOrStore(k, v) on a fresh entry returns its value with
\* loaded=true and leaves the value unchanged; on an absent or stale key it
\* stores v and returns (v, false), and a Load(k) issued after it, before
\* the new deadline, returns (v, true).
C15_LoadOrStoreResult ==
    [][\A t \in Threads :
         /\ (alive /\ LoadOrStoreCheck(t) /\ pc'[t] = "idle")
              => LET k == loc[t].key
                 IN  /\ Fresh(State, k, now)
                     /\ ret'.ok /\ ret'.val = nodes[entryMap[k]].value
                     /\ Present(State', k) /\ nodes'[entryMap'[k]].value = ret'.val
         /\ LoadOrStoreStore(t)
              => LET k == loc[t].key
                     v == loc[t].value
                 IN  /\ ~Fresh(State, k, now)
                     /\ ~ret'.ok /\ ret'.val = v
                     /\ LoadResult(State', k, now') = <<v, TRUE>>]_vars

\* C16: LinkedMap.Delete(k) on a present key removes it and returns the
\* value that was stored under k; on an absent key it returns nil and
\* changes nothing.
C16_LinkedMapDeleteReturnsValue ==
    [][\A t \in Threads, k \in Keys :
         (alive /\ LinkedMap_Delete(t, k))
            => IF Present(State, k)
               THEN /\ ~Present(State', k)
                    /\ ret'.val = nodes[entryMap[k]].value
               ELSE /\ ret'.val = NoVal
                    /\ State' = State]_vars

InTTLMapDestroy(t) == pc[t] \in {"TTLMap.Destroy", "TTLMap.Destroy_send"}

\* C17: a Destroy() call on a live TTLMap returns, with a sweeper running
\* (defaultTTL > 0) and without one (defaultTTL <= 0): the program never
\* comes to rest with a caller still inside TTLMap.Destroy.
C17_TTLMapDestroyReturns ==
    (\A t \in Threads : ~InTTLMapDestroy(t)) \/ ENABLED NextTTLMap

\* C18: TTLMap.Clear() on a map holding n fresh entries returns those n
\* key/value pairs and leaves the map empty, so that a Load of any of the
\* keys that follows returns not-found.
C18_TTLMapClearReturnsAll ==
    [][\A t \in Threads :
         TTLMap_ClearCollect(t)
            => /\ ret'.seq = loc[t].chain
               /\ \A k \in Keys : LoadResult(State', k, now') = <<NoVal, FALSE>>]_vars

Without(seq, k) == SelectSeq(seq, LAMBDA x : x # k)

\* the step removes exactly the key k: by Delete(k), by the eviction inside
\* Load(k), or by a DeleteExpired that finds k alone expired
RemovesKey(t, k) ==
    /\ alive
    /\ Present(State, k)
    /\ \/ Delete(t, k)
       \/ Load(t) /\ loc[t].key = k /\ ~Fresh(State, k, now)
       \/ DeleteExpired(t) /\ ExpiredKeys(State, now) = {k}

\* C19: removing one key k (Delete, the eviction inside Load, DeleteExpired)
\* leaves every other key in the hash index and reachable from head, in the
\* same relative order, wherever k's node was in the list.
C19_RemoveKeepsOthers ==
    [][\A t \in Threads, k \in Keys :
         RemovesKey(t, k)
            => /\ DOMAIN entryMap' = (DOMAIN entryMap) \ {k}
               /\ WalkKeys(State') = Without(WalkKeys(State), k)]_vars

\* C20: on a live map head is nil iff tail is nil iff the index is empty;
\* head has no predecessor and tail no successor; n.after.before = n for
\* every node n of the chain with a successor; the chain from head has no
\* cycle and ends at tail after exactly Size() nodes.
C20_HeadTailConsistent ==
    alive =>
      LET w == Walk(State)
      IN  /\ (head = Nil) <=> (tail = Nil)
          /\ (head = Nil) <=> (DOMAIN entryMap = {})
          /\ head # Nil => nodes[head].before = Nil
          /\ tail # Nil => nodes[tail].after = Nil
          /\ \A i \in DOMAIN w :
                nodes[w[i]].after # Nil => nodes[nodes[w[i]].after].before = w[i]
          /\ \A i, j \in DOMAIN w : i # j => w[i] # w[j]
          /\ Len(w) = Size(State)
          /\ w # <<>> => w[Len(w)] = tail

\* C21: a sweeper tick never touches a destroyed map and never raises
\* MapDestroyed; once Destroy() has been called and every call has run as far
\* as it can, the sweeper has observed the destroy signal and exited.
C21_SweeperStopsAtDestroy ==
    /\ gc # "panicked"
    /\ (DestroyCalled /\ expiration > 0 /\ ~ENABLED NextConc) => gc = "exited"

\* the step writes the shared structure or the lifecycle state
WritesShared ==
    \/ <<nodes, entryMap, head, tail>>' # <<nodes, entryMap, head, tail>>
    \/ alive' # alive

\* C22: every step that writes shared state (evict, renew, insert, update,
\* lifecycle change) is taken with the lock held in exclusive mode: the
\* writer holds it already, or takes it within the step, which needs that
\* no reader and no other writer holds it.
C22_WritesUnderExclusiveLock ==
    [][WritesShared => (mu.writer # Nil \/ CanLock)]_vars

\* C23: Range hands the visitor exactly the fresh entries of the map, in
\* list order, stops at the visitor's first false, and changes nothing:
\* index, linked order and Size() are the same afterwards.
C23_RangeVisitsFreshOnly ==
    [][\A t \in Threads, stop \in {0, 1} :
         (alive /\ Range(t, stop))
            => LET all == Visited(State, now, 0)
                   n   == Cardinality(LoadableEntries(State, now))
               IN  /\ {all[i] : i \in DOMAIN all} = LoadableEntries(State, now)
                   /\ Len(all) = n
                   /\ Len(ret'.seq) = IF stop = 0 \/ stop > n THEN n ELSE stop
                   /\ \A i \in DOMAIN ret'.seq : ret'.seq[i] = all[i]
                   /\ State' = State
                   /\ Size(State') = Size(State)]_vars

\* the nodes Range hands to the visitor: the fresh nodes in list order, up to
\* and including the one at which the visitor stops
VisitedNodes(S, t, stop) ==
    LET fr == SelectSeq(Walk(S), LAMBDA n : ~expired(S.nodes[n], t))
        m  == IF stop = 0 \/ stop > Len(fr) THEN Len(fr) ELSE stop
    IN  {fr[i] : i \in 1..m}

\* C24: with renewOnAccess and a positive default TTL, every entry Range
\* passes to the visitor leaves the call with the deadline (time of the
\* visit + TTL), the deadline a successful Load of that key would give it.
C24_RangeRenewsVisited ==
    [][\A t \in Threads, stop \in {0, 1} :
         (alive /\ renewOnLoad /\ expiration > 0 /\ Range(t, stop))
            => \A n \in VisitedNodes(State, now, stop) :
                  /\ n \in DOMAIN nodes'
                  /\ nodes'[n].expiration = renew(nodes[n], expiration, now).expiration
                  /\ nodes'[n].expiration = now + expiration]_vars

\* C25: DeleteExpired() removes exactly the entries stale at the time of the
\* call and returns each of them once; afterwards no stale entry is left in
\* the hash index or in the linked order, and every fresh entry is still in
\* both, in its former relative order.
C25_DeleteExpiredExact ==
    [][\A t \in Threads :
         (alive /\ DeleteExpired(t))
            => LET stale == ExpiredKeys(State, now)
                   out   == ret'.seq
               IN  /\ {out[i].key : i \in DOMAIN out} = stale
                   /\ Len(out) = Cardinality(stale)
                   /\ \A i \in DOMAIN out :
                        out[i].value = nodes[entryMap[out[i].key]].value
                   /\ ExpiredKeys(State', now) = {}
                   /\ \A n \in DOMAIN nodes' : ~expired(nodes'[n], now)
                   /\ DOMAIN entryMap' = (DOMAIN entryMap) \ stale
                   /\ WalkKeys(State') =
                        SelectSeq(WalkKeys(State), LAMBDA k : k \notin stale)]_vars

\* Size() counts key k although its deadline has passed
StaleInIndex(k) == Present(State, k) /\ expired(nodes[entryMap[k]], now)

\* C26: on a live map with a positive default TTL, an entry that has become
\* stale and that no caller reads or deletes is eventually no longer counted
\* by Size(): the background sweeper removes it from the index.
C26_SweeperRemovesStale ==
    (alive /\ expiration > 0 /\ StaleInIndex("a")) ~> ~StaleInIndex("a")

\* the last call to return was Store("a"), its deadline has passed, and "a"
\* is gone from the index: removed by the sweeper
C26_Witness ==
    /\ alive /\ expiration > 0 /\ gc = "select"
    /\ ret.op = "Store" /\ ret.key = "a" /\ ~ret.err
    /\ now > ret.at + expiration
    /\ ~Present(State, "a")
    /\ pc[1] = "idle"

\* C27: whenever TTLMap.Clear() returns, on an empty or a non-empty map, the
\* caller no longer holds the map's lock, so a call started afterwards can
\* take it.
C27_TTLMapClearReleasesLock ==
    [][\A t \in Threads :
         ((TTLMap_Clear(t) \/ TTLMap_ClearCollect(t)) /\ pc'[t] = "idle")
            => /\ mu'.writer # t
               /\ t \notin mu'.readers]_vars

====
